---- MODULE Spec2Model ----
(***************************************************************************)
(* A model of the cxo schema registry, schema codec, size engine and       *)
(* message framing (packages skyobject and node).                          *)
(*                                                                         *)
(* Byte strings are sequences of naturals 0..255.  A nil error is "".      *)
(***************************************************************************)
EXTENDS Integers, Sequences, FiniteSets, TLC

VARIABLES
    sz_pc,      \* size engine driver: "start" | "sized" | "truncated"
    sz_schema,  \* the Schema given to SchemaSize
    sz_data,    \* encode(V): the encoded value
    sz_len,     \* the length of the buffer handed to SchemaSize
    sz_res,     \* the (n, err) SchemaSize returned
    msg_pc,     \* message driver: "start" | "buffer" | "decoded"
    msg_in,     \* the message given to Encode (NoMsg when the buffer is raw)
    msg_buf,    \* the buffer given to Decode
    msg_extra,  \* the number of bytes appended to Encode(msg_in)
    msg_out,    \* the (msg, err) Decode returned
    cd_pc,      \* schema codec driver: "start" | "encoded" | "decoded"
    cd_schema,  \* the schema that is encoded
    cd_bytes,   \* the encoded schema given to decodeSchema
    cd_changed, \* whether the reference type or kind was overwritten
    cd_out,     \* the (s, err) decodeSchema returned
    rg_pc,      \* NewRegistry: "closure" | "fill" | "done" | "panic"
    rg_decls,   \* the Register calls of the closure given to NewRegistry
    rg_todo,    \* the calls the closure has not made yet
    rg_tn,      \* Reg.tn: type -> registered name
    rg_nt,      \* Registry.nt: registered name -> type
    rg_heap,    \* the schema objects, by address
    rg_reg,     \* Registry.reg: name -> address of the schema
    rg_srf,     \* Registry.srf: SchemaRef -> address of the schema
    rg_filled,  \* finialize: the addresses in the map filled
    rg_stack,   \* finialize: the running calls of fillSchema
    rg_iter,    \* finialize: the names its first loop has not reached
    rg_visits,  \* address -> how often fillSchema went into the schema
    rg_enc,     \* the Encode() of the finialized Registry
    rg_ref,     \* Registry.ref
    rg_prev,    \* the Encode() and Reference() of the Registry built before
    dr_in,      \* DecodeRegistry: its input, and the Registry the input is of
    dr_err      \* DecodeRegistry: its err, the error when it returns

sz_vars == <<sz_pc, sz_schema, sz_data, sz_len, sz_res>>
msg_vars == <<msg_pc, msg_in, msg_buf, msg_extra, msg_out>>
cd_vars == <<cd_pc, cd_schema, cd_bytes, cd_changed, cd_out>>
rg_vars ==
    <<rg_pc, rg_decls, rg_todo, rg_tn, rg_nt, rg_heap, rg_reg, rg_srf, rg_filled,
      rg_stack, rg_iter, rg_visits, rg_enc, rg_ref, rg_prev>>
dr_vars == <<dr_in, dr_err>>
vars == <<sz_vars, msg_vars, cd_vars, rg_vars, dr_vars>>

\* what the operations of one component leave alone
not_sz == <<msg_vars, cd_vars, rg_vars, dr_vars>>
not_msg == <<sz_vars, cd_vars, rg_vars, dr_vars>>
not_cd == <<sz_vars, msg_vars, rg_vars, dr_vars>>
not_rg == <<sz_vars, msg_vars, cd_vars, dr_vars>>
not_dr == <<sz_vars, msg_vars, cd_vars>>

----------------------------------------------------------------------------
(* Bounds of the model *)

\* longest string / slice / reference list of a generated value
MaxLen == 1
\* number of schema nodes of a generated schema (a leaf is one node)
MaxNodes == 3
\* longest byte slice carried by a generated message
MaxData == 2
\* most bytes appended to an encoded message, and the longest tail of a raw
\* buffer
MaxExtra == 2
\* most Register calls of a closure
MaxDecls == 2
\* most calls of fillSchema that go into one schema object
MaxVisits == 2

----------------------------------------------------------------------------
(* Go's reflect.Kind, as far as the package uses it *)

reflect ==
    [Invalid |-> 0, Bool |-> 1, Int |-> 2, Int8 |-> 3, Int16 |-> 4,
     Int32 |-> 5, Int64 |-> 6, Uint |-> 7, Uint8 |-> 8, Uint16 |-> 9,
     Uint32 |-> 10, Uint64 |-> 11, Uintptr |-> 12, Float32 |-> 13,
     Float64 |-> 14, Complex64 |-> 15, Complex128 |-> 16, Array |-> 17,
     Chan |-> 18, Func |-> 19, Interface |-> 20, Map |-> 21, Ptr |-> 22,
     Slice |-> 23, String |-> 24, Struct |-> 25, UnsafePointer |-> 26]

\* ReferenceType of a schema (declared in schema.go)
ReferenceTypeNone == 0
ReferenceTypeSingle == 1
ReferenceTypeSlice == 2
ReferenceTypeDynamic == 3

\* len(cipher.SHA256{})
SHA256Len == 32

\* errors of the Value / size engine
ErrInvalidSchemaOrData == "invalid schema or data"
ErrInvalidSchema == "invalid schema"
\* the error of encoder.DeserializeRaw on a short buffer
ErrDeserialize == "Deserialization failed"

----------------------------------------------------------------------------
(* Schemas as values: a schema is a record                                  *)
(*   ref    the ReferenceType                                               *)
(*   kind   the reflect.Kind                                                *)
(*   name   the name, a byte string (<<>> when unnamed)                                      *)
(*   len    the length of an array                                          *)
(*   elem   <<>> or <<element schema>>                                      *)
(*   fields the sequence of [name, tag, schema] of a struct                 *)

Sch(r, k, nm, l, el, fs) ==
    [ref |-> r, kind |-> k, name |-> nm, len |-> l, elem |-> el, fields |-> fs]

IsReference(s) == s.ref # ReferenceTypeNone
Elem(s) == s.elem[1]

Min(a, b) == IF a < b THEN a ELSE b

\* p[n:]
From(p, n) == SubSeq(p, n + 1, Len(p))
\* p[:n]
Upto(p, n) == SubSeq(p, 1, n)

----------------------------------------------------------------------------
(* encoder: the raw encoder of primitive values *)

RECURSIVE LittleEndian(_, _)
\* v as w bytes, least significant first
LittleEndian(v, w) ==
    IF w = 0 THEN <<>> ELSE <<v % 256>> \o LittleEndian(v \div 256, w - 1)

RECURSIVE FromLittleEndian(_)
FromLittleEndian(b) ==
    IF b = <<>> THEN 0 ELSE b[1] + 256 * FromLittleEndian(Tail(b))

\* encoder.DeserializeRaw(p, &u) for a uint32 u: fails on a buffer shorter
\* than the value
DeserializeUint32(p) ==
    IF Len(p) < 4 THEN [v |-> 0, err |-> ErrDeserialize]
    ELSE [v |-> FromLittleEndian(Upto(p, 4)), err |-> ""]

----------------------------------------------------------------------------
(* The size engine *)

\* fixedSize: the size of a value of a fixed-size kind, -1 otherwise
fixedSize(kind) ==
    CASE kind \in {reflect.Bool, reflect.Int8, reflect.Uint8} -> 1
      [] kind \in {reflect.Int16, reflect.Uint16} -> 2
      [] kind \in {reflect.Int32, reflect.Uint32, reflect.Float32} -> 4
      [] kind \in {reflect.Int64, reflect.Uint64, reflect.Float64} -> 8
      [] OTHER -> -1

\* getLength of length prefixed values
getLength(p) ==
    LET d == DeserializeUint32(p) IN [n |-> d.v, err |-> d.err]

\* refSize(&References{}): the reference list is a uint32 count and then
\* that many digests
refSize(p) ==
    LET d == DeserializeUint32(p) IN
    IF d.err # "" THEN [n |-> 0, err |-> d.err]
    ELSE IF 4 + d.v * SHA256Len > Len(p) THEN [n |-> 0, err |-> ErrDeserialize]
    ELSE [n |-> 4 + d.v * SHA256Len, err |-> ""]

RECURSIVE SchemaSize(_, _)
RECURSIVE arraySliceLoop(_, _, _, _, _)
RECURSIVE structLoop(_, _, _, _)

\* the loop of schemaArraySliceSize over the elements i..l-1, n bytes used
arraySliceLoop(el, l, i, n, p) ==
    IF i >= l THEN [n |-> n, err |-> ""]
    ELSE IF n >= Len(p) THEN [n |-> n, err |-> ErrInvalidSchemaOrData]
    ELSE LET r == SchemaSize(el, From(p, n)) IN
         IF r.err # "" THEN [n |-> n, err |-> r.err]
         ELSE arraySliceLoop(el, l, i + 1, n + r.n, p)

\* schemaArraySliceSize: l elements of schema el that begin at p[shift]
schemaArraySliceSize(el, l, shift, p) ==
    IF fixedSize(el.kind) > 0
    THEN [n |-> shift + l * fixedSize(el.kind), err |-> ""]
    ELSE arraySliceLoop(el, l, 0, shift, p)

schemaSliceSize(s, p) ==
    LET l == getLength(p) IN
    IF l.err # "" THEN [n |-> 0, err |-> l.err]
    ELSE schemaArraySliceSize(Elem(s), l.n, 4, p)

schemaArraySize(s, p) == schemaArraySliceSize(Elem(s), s.len, 0, p)

\* the loop of schemaStructSize over the fields i.., n bytes used
structLoop(fs, i, n, p) ==
    IF i > Len(fs) THEN [n |-> n, err |-> ""]
    ELSE IF n >= Len(p) THEN [n |-> n, err |-> ErrInvalidSchemaOrData]
    ELSE LET r == SchemaSize(fs[i].schema, From(p, n)) IN
         IF r.err # "" THEN [n |-> n, err |-> r.err]
         ELSE structLoop(fs, i + 1, n + r.n, p)

schemaStructSize(s, p) == structLoop(s.fields, 1, 0, p)

\* the size by kind of a schema that is not a reference, before the final
\* comparison with len(p)
sizeByKind(s, p) ==
    CASE fixedSize(s.kind) > 0 -> [n |-> fixedSize(s.kind), err |-> ""]
      [] s.kind = reflect.String ->
            LET l == getLength(p) IN
            IF l.err # "" THEN [n |-> l.n, err |-> l.err]
            ELSE [n |-> l.n + 4, err |-> ""]
      [] s.kind = reflect.Slice ->
            schemaSliceSize(s, p)
      [] s.kind = reflect.Array ->
            schemaArraySize(s, p)
      [] s.kind = reflect.Struct ->
            schemaStructSize(s, p)
      [] OTHER -> [n |-> 0, err |-> ErrInvalidSchema]

\* a mutant of SchemaSize: a size beyond the buffer is cut down to the buffer
\* instead of being reported
SchemaSizeClamped(s, p) ==
    IF IsReference(s)
    THEN CASE s.ref = ReferenceTypeSingle -> [n |-> SHA256Len, err |-> ""]
           [] s.ref = ReferenceTypeSlice -> refSize(p)
           [] s.ref = ReferenceTypeDynamic -> [n |-> 2 * SHA256Len, err |-> ""]
           [] OTHER -> [n |-> 0, err |-> "reference with invalid ReferenceType"]
    ELSE LET r == sizeByKind(s, p) IN
         IF r.err # "" THEN r
         ELSE [n |-> Min(r.n, Len(p)), err |-> ""]

\* SchemaSize returns size used by encoded data of given schema
SchemaSize(s, p) ==
    IF IsReference(s)
    THEN CASE s.ref = ReferenceTypeSingle -> [n |-> SHA256Len, err |-> ""]
           [] s.ref = ReferenceTypeSlice -> refSize(p)
           [] s.ref = ReferenceTypeDynamic -> [n |-> 2 * SHA256Len, err |-> ""]
           [] OTHER -> [n |-> 0, err |-> "reference with invalid ReferenceType"]
    ELSE LET r == sizeByKind(s, p) IN
         IF r.err # "" THEN r
         ELSE IF r.n > Len(p) THEN [n |-> r.n, err |-> ErrInvalidSchemaOrData]
         ELSE [n |-> r.n, err |-> ""]

----------------------------------------------------------------------------
(* encoder.Serialize of a value under a schema.  A value is a number (a    *)
(* scalar), a byte string (a string, a digest, a pair of digests), or a    *)
(* sequence of values (the elements of a slice or array, the digests of a  *)
(* reference list, the fields of a struct).                                *)

RECURSIVE Serialize(_, _)
RECURSIVE SerializeAll(_, _, _)

\* the concatenation of the encodings of vs[i..], the i-th under ss[i]
SerializeAll(ss, vs, i) ==
    IF i > Len(vs) THEN <<>>
    ELSE Serialize(ss[i], vs[i]) \o SerializeAll(ss, vs, i + 1)

RECURSIVE Flatten(_)
Flatten(bs) == IF bs = <<>> THEN <<>> ELSE Head(bs) \o Flatten(Tail(bs))

Serialize(s, v) ==
    CASE s.ref \in {ReferenceTypeSingle, ReferenceTypeDynamic} -> v
      [] s.ref = ReferenceTypeSlice -> LittleEndian(Len(v), 4) \o Flatten(v)
      [] fixedSize(s.kind) > 0 -> LittleEndian(v, fixedSize(s.kind))
      [] s.kind = reflect.String -> LittleEndian(Len(v), 4) \o v
      [] s.kind = reflect.Slice ->
            LittleEndian(Len(v), 4)
                \o (IF fixedSize(Elem(s).kind) = 1 THEN v
                    ELSE SerializeAll([i \in 1..Len(v) |-> Elem(s)], v, 1))
      [] s.kind = reflect.Array ->
            IF fixedSize(Elem(s).kind) = 1 THEN v
            ELSE SerializeAll([i \in 1..Len(v) |-> Elem(s)], v, 1)
      [] s.kind = reflect.Struct ->
            SerializeAll([i \in 1..Len(v) |-> s.fields[i].schema], v, 1)

\* the error of the encoder on a buffer shorter than the value
ErrNotEnoughBytes == "not enough buffer data to deserialize"

RECURSIVE DeserializeRawToValue(_, _)
RECURSIVE DeserializeAll(_, _, _, _, _)

\* the values under ss[i..] decoded from p[n:], after the values vs
DeserializeAll(ss, i, vs, n, p) ==
    IF i > Len(ss) THEN [v |-> vs, n |-> n, err |-> ""]
    ELSE LET r == DeserializeRawToValue(ss[i], From(p, n)) IN
         IF r.err # "" THEN [v |-> <<>>, n |-> 0, err |-> r.err]
         ELSE DeserializeAll(ss, i + 1, Append(vs, r.v), n + r.n, p)

\* encoder.DeserializeRawToValue: the value of the type described by s that
\* p begins with, and the number of bytes it takes
DeserializeRawToValue(s, p) ==
    LET short == [v |-> <<>>, n |-> 0, err |-> ErrNotEnoughBytes]
        l == FromLittleEndian(Upto(p, 4))
        shift(r) == IF r.err # "" THEN r ELSE [r EXCEPT !.n = r.n + 4]
        \* c elements of the fixed-size type e, one after the other
        fixed(e, c, q) ==
            LET w == fixedSize(e.kind) IN
            IF Len(q) < c * w THEN short
            ELSE [v |-> [i \in 1..c |-> FromLittleEndian(SubSeq(q, (i - 1) * w + 1, i * w))],
                  n |-> c * w, err |-> ""]
    IN
    CASE fixedSize(s.kind) > 0 ->
            IF Len(p) < fixedSize(s.kind) THEN short
            ELSE [v |-> FromLittleEndian(Upto(p, fixedSize(s.kind))),
                  n |-> fixedSize(s.kind), err |-> ""]
      [] s.kind = reflect.String ->
            IF Len(p) < 4 \/ Len(p) < 4 + l THEN short
            ELSE [v |-> SubSeq(p, 5, 4 + l), n |-> 4 + l, err |-> ""]
      [] s.kind = reflect.Slice ->
            IF Len(p) < 4 THEN short
            ELSE IF fixedSize(Elem(s).kind) > 0
            THEN shift(fixed(Elem(s), l, From(p, 4)))
            ELSE shift(DeserializeAll([i \in 1..l |-> Elem(s)], 1, <<>>, 0, From(p, 4)))
      [] s.kind = reflect.Array ->
            IF fixedSize(Elem(s).kind) > 0 THEN fixed(Elem(s), s.len, p)
            ELSE DeserializeAll([i \in 1..s.len |-> Elem(s)], 1, <<>>, 0, p)
      [] s.kind = reflect.Struct ->
            DeserializeAll([i \in 1..Len(s.fields) |-> s.fields[i].schema], 1, <<>>, 0, p)

----------------------------------------------------------------------------
(* The schemas and values the size engine is driven with *)

\* the array lengths of the generated schemas
ArrayLens == {0, 1, 2}

\* one kind of each fixed size
ScalarKinds == {reflect.Bool, reflect.Int16, reflect.Uint32, reflect.Float64}

\* reflect.Type.Name() of the predeclared type of the kind k: "bool", "int",
\* .., "string"
KindName(k) ==
    CASE k = reflect.Bool -> <<98, 111, 111, 108>>
      [] k = reflect.Int -> <<105, 110, 116>>
      [] k = reflect.Int8 -> <<105, 110, 116, 56>>
      [] k = reflect.Int16 -> <<105, 110, 116, 49, 54>>
      [] k = reflect.Int32 -> <<105, 110, 116, 51, 50>>
      [] k = reflect.Int64 -> <<105, 110, 116, 54, 52>>
      [] k = reflect.Uint8 -> <<117, 105, 110, 116, 56>>
      [] k = reflect.Uint16 -> <<117, 105, 110, 116, 49, 54>>
      [] k = reflect.Uint32 -> <<117, 105, 110, 116, 51, 50>>
      [] k = reflect.Uint64 -> <<117, 105, 110, 116, 54, 52>>
      [] k = reflect.Float32 -> <<102, 108, 111, 97, 116, 51, 50>>
      [] k = reflect.Float64 -> <<102, 108, 111, 97, 116, 54, 52>>
      [] k = reflect.String -> <<115, 116, 114, 105, 110, 103>>

\* the schema of a predeclared type: s.kind, s.name = typ.Kind(), typ.Name()
Scalar(k) == Sch(ReferenceTypeNone, k, KindName(k), 0, <<>>, <<>>)
String == Scalar(reflect.String)
SliceOf(e) == Sch(ReferenceTypeNone, reflect.Slice, <<>>, 0, <<e>>, <<>>)
ArrayOf(e, l) == Sch(ReferenceTypeNone, reflect.Array, <<>>, l, <<e>>, <<>>)
\* the placeholder of the struct registered under the name nm
Named(nm) == Sch(ReferenceTypeNone, reflect.Struct, nm, 0, <<>>, <<>>)

\* the names of the generated schemas: "A" and "B"
NameA == <<65>>
NameB == <<66>>

\* "skyobject", the key of the struct tag that names a schema
TAG == <<115, 107, 121, 111, 98, 106, 101, 99, 116>>

\* a reflect.StructTag is the sequence of its <<key, value>>; TagBytes is
\* the string it is written as, key:"value" key:"value"
RECURSIVE TagBytes(_)
TagBytes(tag) ==
    IF tag = <<>> THEN <<>>
    ELSE tag[1][1] \o <<58, 34>> \o tag[1][2] \o <<34>>
            \o (IF Len(tag) = 1 THEN <<>> ELSE <<32>> \o TagBytes(Tail(tag)))

\* "schema=", the prefix of the part of the tag that names the schema
SchemaPrefix == <<115, 99, 104, 101, 109, 97, 61>>

\* the struct tag `skyobject:"schema=nm"`
SchemaTag(nm) == <<<<TAG, SchemaPrefix \o nm>>>>

\* []byte(sf.Tag) of that tag
Tag(nm) == TagBytes(SchemaTag(nm))

\* the reference fields: Reference and References carry the placeholder of
\* their target, Dynamic has none
Single == Sch(ReferenceTypeSingle, reflect.Array, <<>>, 0, <<Named(NameA)>>, <<>>)
References == Sch(ReferenceTypeSlice, reflect.Slice, <<>>, 0, <<Named(NameA)>>, <<>>)
Dynamic == Sch(ReferenceTypeDynamic, reflect.Struct, <<>>, 0, <<>>, <<>>)

\* the struct of the fields "F1", "F2", .. with the schemas ss; a Reference
\* or References field has the tag that names its target
StructOf(ss) ==
    Sch(ReferenceTypeNone, reflect.Struct, <<>>, 0, <<>>,
        [i \in 1..Len(ss) |->
            [name |-> <<70, 48 + i>>,
             tag |-> IF ss[i].ref \in {ReferenceTypeSingle, ReferenceTypeSlice}
                     THEN Tag(Elem(ss[i]).name) ELSE <<>>,
             schema |-> ss[i]]])

Leaves == {Scalar(k) : k \in ScalarKinds} \cup {String, Single, References, Dynamic}

RECURSIVE SchemasOfSize(_, _)
RECURSIVE FieldSeqs(_, _)

\* the sequences of schemas over the leaves L that have n nodes together
FieldSeqs(L, n) ==
    IF n = 0 THEN {<<>>}
    ELSE UNION {{<<s>> \o rest : s \in SchemasOfSize(L, k), rest \in FieldSeqs(L, n - k)}
                : k \in 1..n}

\* the schemas of exactly n nodes over the leaves L
SchemasOfSize(L, n) ==
    IF n = 0 THEN {}
    ELSE (IF n = 1 THEN L ELSE {})
         \cup {SliceOf(e) : e \in SchemasOfSize(L, n - 1)}
         \cup {ArrayOf(e, l) : e \in SchemasOfSize(L, n - 1), l \in ArrayLens}
         \cup {StructOf(ss) : ss \in FieldSeqs(L, n - 1)}

SchemaUniverse == UNION {SchemasOfSize(Leaves, n) : n \in 1..MaxNodes}

Digest == [i \in 1..SHA256Len |-> 171]

RECURSIVE ValueOf(_, _, _)

\* The value under s whose strings, slices and reference lists have the
\* lengths a and b in turn: the item itself a, its 1st, 3rd, .. children
\* (b, a) when it is a slice and (a, b) otherwise, the others the reverse.
ValueOf(s, a, b) ==
    LET child(e, i, x, y) == IF i % 2 = 1 THEN ValueOf(e, x, y) ELSE ValueOf(e, y, x)
    IN
    CASE s.ref = ReferenceTypeSingle -> Digest
      [] s.ref = ReferenceTypeDynamic -> Digest \o Digest
      [] s.ref = ReferenceTypeSlice -> [i \in 1..a |-> Digest]
      [] fixedSize(s.kind) > 0 -> 1
      [] s.kind = reflect.String -> [i \in 1..a |-> 97]
      [] s.kind = reflect.Slice -> [i \in 1..a |-> child(Elem(s), i, b, a)]
      [] s.kind = reflect.Array -> [i \in 1..s.len |-> child(Elem(s), i, a, b)]
      [] s.kind = reflect.Struct ->
            [i \in 1..Len(s.fields) |-> child(s.fields[i].schema, i, a, b)]

\* the encodings of the values generated under s
EncodingsOf(s) == {Serialize(s, ValueOf(s, a, b)) : a, b \in 0..MaxLen}

----------------------------------------------------------------------------
(* The size engine driven over an encoded value and over its truncations *)

NoRes == [n |-> 0, err |-> ""]

SizeIdle ==
    /\ sz_pc = "idle"
    /\ sz_schema = String
    /\ sz_data = <<>>
    /\ sz_len = 0
    /\ sz_res = NoRes

SizeInit ==
    /\ sz_pc = "start"
    /\ sz_schema \in SchemaUniverse
    /\ sz_data \in EncodingsOf(sz_schema)
    /\ sz_len = Len(sz_data)
    /\ sz_res = NoRes

\* SchemaSize(S, encode(V))
SizeEncoded ==
    /\ sz_pc = "start"
    /\ sz_res' = SchemaSize(sz_schema, sz_data)
    /\ sz_pc' = "sized"
    /\ UNCHANGED <<sz_schema, sz_data, sz_len, not_sz>>

\* SchemaSize(S, encode(V)[0:L]) for an L below the full length
SizeTruncated ==
    /\ sz_pc = "start"
    /\ \E L \in 0..(Len(sz_data) - 1) :
          /\ sz_len' = L
          /\ sz_res' = SchemaSize(sz_schema, Upto(sz_data, L))
    /\ sz_pc' = "truncated"
    /\ UNCHANGED <<sz_schema, sz_data, not_sz>>

SizeNext == SizeEncoded \/ SizeTruncated


----------------------------------------------------------------------------
(* Claims about the size engine *)

\* C1: for every schema S and value V under S, SchemaSize(S, encode(V))
\* returns no error and exactly len(encode(V)), also when a field or an
\* element encodes to zero bytes.
C1_ExactSize ==
    sz_pc = "sized" => sz_res.err = "" /\ sz_res.n = Len(sz_data)

\* C2: SchemaSize over an encoding cut to L bytes, L below the full length,
\* returns an error or a size greater than L.
C2_TruncationSafe ==
    sz_pc = "truncated" => sz_res.err # "" \/ sz_res.n > sz_len

\* a struct cut inside its second field: the size engine reports the failure
C2_Witness ==
    /\ sz_pc = "truncated"
    /\ sz_schema.kind = reflect.Struct
    /\ Len(sz_schema.fields) = 2
    /\ sz_schema.fields[2].schema.kind = reflect.String
    /\ sz_len > 1
    /\ sz_res.err = ErrInvalidSchemaOrData

\* C12: SchemaSize never returns a size greater than len(p) together with a
\* nil error, for a Reference or Dynamic schema given to it directly too.
C12_NoSizeBeyondBuffer ==
    sz_pc \in {"sized", "truncated"} => ~(sz_res.err = "" /\ sz_res.n > sz_len)

----------------------------------------------------------------------------
(* Message framing (package node) *)

\* MsgType: the message prefix
PingMsgType == 1
PongMsgType == 2
JoinFeedMsgType == 3
LeaveFeedMsgType == 4
RootMsgType == 5
RequestDataMsgType == 6
DataMsgType == 7
RequestRegistryMsgType == 8
RegistryMsgType == 9

\* len(cipher.PubKey{}) and len(cipher.Sig{})
PubKeyLen == 33
SigLen == 65

Bytes == SliceOf(Scalar(reflect.Uint8))
PubKey == ArrayOf(Scalar(reflect.Uint8), PubKeyLen)
SHA256 == ArrayOf(Scalar(reflect.Uint8), SHA256Len)
Sig == ArrayOf(Scalar(reflect.Uint8), SigLen)

\* a struct type with the given field names and types
GoStruct(names, types) ==
    Sch(ReferenceTypeNone, reflect.Struct, <<>>, 0, <<>>,
        [i \in 1..Len(names) |-> [name |-> names[i], tag |-> <<>>, schema |-> types[i]]])

\* data.RootPack: the encoded root and its signature
RootPack == GoStruct(<<"Root", "Sig">>, <<Bytes, Sig>>)

\* the message types
MsgStruct ==
    [PingMsg |-> GoStruct(<<>>, <<>>),
     PongMsg |-> GoStruct(<<>>, <<>>),
     JoinFeedMsg |-> GoStruct(<<"Feed">>, <<PubKey>>),
     LeaveFeedMsg |-> GoStruct(<<"Feed">>, <<PubKey>>),
     RootMsg |-> GoStruct(<<"Feed", "RootPack">>, <<PubKey, RootPack>>),
     RequestDataMsg |-> GoStruct(<<"Ref">>, <<SHA256>>),
     DataMsg |-> GoStruct(<<"Data">>, <<Bytes>>),
     RequestRegistryMsg |-> GoStruct(<<"Ref">>, <<SHA256>>),
     RegistryMsg |-> GoStruct(<<"Reg">>, <<Bytes>>)]

MsgNames == DOMAIN MsgStruct

\* the MsgType method of each message type
MsgTypeOf ==
    [PingMsg |-> PingMsgType,
     PongMsg |-> PongMsgType,
     JoinFeedMsg |-> JoinFeedMsgType,
     LeaveFeedMsg |-> LeaveFeedMsgType,
     RootMsg |-> RootMsgType,
     RequestDataMsg |-> RequestDataMsgType,
     DataMsg |-> DataMsgType,
     RequestRegistryMsg |-> RequestRegistryMsgType,
     RegistryMsg |-> RegistryMsgType]

\* a mutant of forwardRegistry: the entries of the two registry messages
\* are exchanged
forwardRegistrySwapped ==
    (PingMsgType :> "PingMsg") @@ (PongMsgType :> "PongMsg")
    @@ (JoinFeedMsgType :> "JoinFeedMsg") @@ (LeaveFeedMsgType :> "LeaveFeedMsg")
    @@ (RootMsgType :> "RootMsg") @@ (RequestDataMsgType :> "RequestDataMsg")
    @@ (DataMsgType :> "DataMsg") @@ (RequestRegistryMsgType :> "RegistryMsg")
    @@ (RegistryMsgType :> "RequestRegistryMsg") @@ (0 :> "nil")

\* forwardRegistry: an array indexed by MsgType; its entry 0 is not set
forwardRegistry ==
    (PingMsgType :> "PingMsg") @@ (PongMsgType :> "PongMsg")
    @@ (JoinFeedMsgType :> "JoinFeedMsg") @@ (LeaveFeedMsgType :> "LeaveFeedMsg")
    @@ (RootMsgType :> "RootMsg") @@ (RequestDataMsgType :> "RequestDataMsg")
    @@ (DataMsgType :> "DataMsg") @@ (RequestRegistryMsgType :> "RequestRegistryMsg")
    @@ (RegistryMsgType :> "RegistryMsg") @@ (0 :> "nil")

\* errors of Decode; ErrInvalidMsgType carries the message type
MsgErr(nm, mt) == [name |-> nm, msgType |-> mt]
NoErr == MsgErr("", 0)
ErrEmptyMessage == MsgErr("empty message", 0)
ErrIncomplieDecoding == MsgErr("incomplite decoding", 0)
ErrInvalidMsgType(mt) == MsgErr("invalid message type", mt)

\* a message is its type and the values of its fields; NoMsg is the nil Msg
NoMsg == [type |-> "nil", val |-> <<>>]

\* Encode given message to []byte prefixed by MsgType
Encode(msg) == <<MsgTypeOf[msg.type]>> \o Serialize(MsgStruct[msg.type], msg.val)

\* a mutant of Decode: the length of the buffer is not compared with the
\* bytes the decoding used
DecodeNoLengthCheck(p) ==
    IF Len(p) < 1 THEN [msg |-> NoMsg, err |-> ErrEmptyMessage]
    ELSE LET mt == p[1] IN
         IF mt <= 0 \/ mt >= Cardinality(DOMAIN forwardRegistry)
         THEN [msg |-> NoMsg, err |-> ErrInvalidMsgType(mt)]
         ELSE LET typ == forwardRegistry[mt]
                  r == DeserializeRawToValue(MsgStruct[typ], From(p, 1))
              IN IF r.err # "" THEN [msg |-> NoMsg, err |-> MsgErr(r.err, 0)]
                 ELSE [msg |-> [type |-> typ, val |-> r.v], err |-> NoErr]

\* a mutant of Decode: the upper bound of the message type is off by one, and
\* the type past the table aborts the decoding
DecodeOffByOne(p) ==
    IF Len(p) < 1 THEN [msg |-> NoMsg, err |-> ErrEmptyMessage]
    ELSE LET mt == p[1] IN
         IF mt <= 0 \/ mt > Cardinality(DOMAIN forwardRegistry)
         THEN [msg |-> NoMsg, err |-> ErrInvalidMsgType(mt)]
         ELSE IF mt \notin DOMAIN forwardRegistry
         THEN [msg |-> NoMsg, err |-> MsgErr("panic: index out of range", 0)]
         ELSE LET typ == forwardRegistry[mt]
                  r == DeserializeRawToValue(MsgStruct[typ], From(p, 1))
              IN IF r.err # "" THEN [msg |-> NoMsg, err |-> MsgErr(r.err, 0)]
                 ELSE IF r.n + 1 # Len(p)
                 THEN [msg |-> NoMsg, err |-> ErrIncomplieDecoding]
                 ELSE [msg |-> [type |-> typ, val |-> r.v], err |-> NoErr]

\* Decode encoded MsgType-prefixed data to message
Decode(p) ==
    IF Len(p) < 1 THEN [msg |-> NoMsg, err |-> ErrEmptyMessage]
    ELSE LET mt == p[1] IN
         IF mt <= 0 \/ mt >= Cardinality(DOMAIN forwardRegistry)
         THEN [msg |-> NoMsg, err |-> ErrInvalidMsgType(mt)]
         ELSE LET typ == forwardRegistry[mt]
                  r == DeserializeRawToValue(MsgStruct[typ], From(p, 1))
              IN IF r.err # "" THEN [msg |-> NoMsg, err |-> MsgErr(r.err, 0)]
                 ELSE IF r.n + 1 # Len(p)
                 THEN [msg |-> NoMsg, err |-> ErrIncomplieDecoding]
                 ELSE [msg |-> [type |-> typ, val |-> r.v], err |-> NoErr]

(* The messages and buffers Encode and Decode are driven with *)

DataBytes == {0, 1}
ByteSeqs(n) == UNION {[1..l -> DataBytes] : l \in 0..n}
PubKeys == {[i \in 1..PubKeyLen |-> 2], [i \in 1..PubKeyLen |-> i % 3]}
Digests == {[i \in 1..SHA256Len |-> 171], [i \in 1..SHA256Len |-> i % 2]}
Sigs == {[i \in 1..SigLen |-> 5], [i \in 1..SigLen |-> i % 4]}

MsgValues ==
    [PingMsg |-> {<<>>},
     PongMsg |-> {<<>>},
     JoinFeedMsg |-> {<<k>> : k \in PubKeys},
     LeaveFeedMsg |-> {<<k>> : k \in PubKeys},
     RootMsg |-> {<<k, <<r, s>>>> : k \in PubKeys, r \in ByteSeqs(MaxData), s \in Sigs},
     RequestDataMsg |-> {<<d>> : d \in Digests},
     DataMsg |-> {<<b>> : b \in ByteSeqs(MaxData)},
     RequestRegistryMsg |-> {<<d>> : d \in Digests},
     RegistryMsg |-> {<<b>> : b \in ByteSeqs(MaxData)}]

Messages == UNION {{[type |-> t, val |-> v] : v \in MsgValues[t]} : t \in MsgNames}

\* the first bytes of the raw buffers: the message types, 0, and bytes
\* past the table
FirstBytes == 0..12 \cup {255}

MsgIdle ==
    /\ msg_pc = "idle"
    /\ msg_in = NoMsg
    /\ msg_buf = <<>>
    /\ msg_extra = 0
    /\ msg_out = [msg |-> NoMsg, err |-> NoErr]

MsgInit ==
    /\ msg_pc = "start"
    /\ msg_in \in Messages \cup {NoMsg}
    /\ msg_buf = <<>>
    /\ msg_extra = 0
    /\ msg_out = [msg |-> NoMsg, err |-> NoErr]

\* p = Encode(msg)
MsgEncode ==
    /\ msg_pc = "start"
    /\ msg_in # NoMsg
    /\ msg_buf' = Encode(msg_in)
    /\ msg_pc' = "buffer"
    /\ UNCHANGED <<msg_in, msg_extra, msg_out, not_msg>>

\* a buffer that no Encode made
MsgRaw ==
    /\ msg_pc = "start"
    /\ msg_in = NoMsg
    /\ \E b \in FirstBytes, tail \in ByteSeqs(MaxExtra) : msg_buf' = <<b>> \o tail
    /\ msg_pc' = "buffer"
    /\ UNCHANGED <<msg_in, msg_extra, msg_out, not_msg>>

\* one more byte after the encoded message
MsgAppend ==
    /\ msg_pc = "buffer"
    /\ msg_in # NoMsg
    /\ msg_extra < MaxExtra
    /\ \E b \in DataBytes : msg_buf' = Append(msg_buf, b)
    /\ msg_extra' = msg_extra + 1
    /\ UNCHANGED <<msg_pc, msg_in, msg_out, not_msg>>

\* msg, err = Decode(p)
MsgDecode ==
    /\ msg_pc = "buffer"
    /\ msg_out' = Decode(msg_buf)
    /\ msg_pc' = "decoded"
    /\ UNCHANGED <<msg_in, msg_buf, msg_extra, not_msg>>

MsgNext == MsgEncode \/ MsgRaw \/ MsgAppend \/ MsgDecode


(* Claims about message framing *)

\* C6: for every message M of the nine variants, Decode(Encode(M)) returns
\* no error and a message of the same variant with the same field values.
C6_MsgRoundTrip ==
    (msg_pc = "decoded" /\ msg_in # NoMsg /\ msg_extra = 0)
        => msg_out.err = NoErr /\ msg_out.msg = msg_in

\* a root message has been encoded and decoded
C6_Witness ==
    /\ msg_pc = "decoded"
    /\ msg_in.type = "RootMsg"
    /\ msg_extra = 0
    /\ Len(msg_in.val[2][1]) = MaxData
    /\ msg_out.msg.type = "RootMsg"

\* C7: Decode of a non-empty buffer whose first byte is 0 or above 9 returns
\* the unknown-message-type failure carrying that byte and no message; a
\* first byte in 1..9 never gives that failure.
C7_UnknownType ==
    (msg_pc = "decoded" /\ Len(msg_buf) >= 1) =>
        /\ (msg_buf[1] = 0 \/ msg_buf[1] > 9) =>
              msg_out = [msg |-> NoMsg, err |-> ErrInvalidMsgType(msg_buf[1])]
        /\ msg_buf[1] \in 1..9 => msg_out.err.name # ErrInvalidMsgType(0).name

\* a buffer that begins with the first byte past the table has been decoded
C7_Witness ==
    /\ msg_pc = "decoded"
    /\ Len(msg_buf) > 1
    /\ msg_buf[1] = 10
    /\ msg_out.err = ErrInvalidMsgType(10)

\* C8: Decode of Encode(M) followed by one or more bytes returns the
\* incomplete-decoding failure and no message.
C8_TrailingBytes ==
    (msg_pc = "decoded" /\ msg_in # NoMsg /\ msg_extra >= 1)
        => msg_out = [msg |-> NoMsg, err |-> ErrIncomplieDecoding]

\* a data message followed by an extra byte has been decoded
C8_Witness ==
    /\ msg_pc = "decoded"
    /\ msg_in.type = "DataMsg"
    /\ msg_extra = 1
    /\ msg_out.err = ErrIncomplieDecoding

----------------------------------------------------------------------------
(* The schema codec *)

ErrInvalidEncodedSchema == "invalid encoded schema"

\* the nil Schema
NilSchema == Sch(-1, reflect.Invalid, <<>>, 0, <<>>, <<>>)

\* IsRegistered: a named struct
IsRegistered(s) == ~IsReference(s) /\ s.kind = reflect.Struct /\ s.name # <<>>

\* type encodedSchema struct {ReferenceType, Kind uint32; Name []byte;
\* Len uint32; Fields [][]byte; Elem []byte}
encodedSchema ==
    GoStruct(<<"ReferenceType", "Kind", "Name", "Len", "Fields", "Elem">>,
             <<Scalar(reflect.Uint32), Scalar(reflect.Uint32), Bytes,
               Scalar(reflect.Uint32), SliceOf(Bytes), Bytes>>)

\* type encodedField struct {Name, Tag, Schema []byte}
encodedField == GoStruct(<<"Name", "Tag", "Schema">>, <<Bytes, Bytes, Bytes>>)

RECURSIVE EncodeSchema(_)

\* the encoding of a nested schema: a registered one goes by its kind and
\* name alone
EncodeNested(s) ==
    IF IsRegistered(s) THEN EncodeSchema(Named(s.name)) ELSE EncodeSchema(s)

\* Field.Encode
EncodeField(f) == Serialize(encodedField, <<f.name, f.tag, EncodeNested(f.schema)>>)

\* Schema.Encode
EncodeSchema(s) ==
    Serialize(encodedSchema,
        <<s.ref, s.kind, s.name, s.len,
          [i \in 1..Len(s.fields) |-> EncodeField(s.fields[i])],
          IF s.elem = <<>> THEN <<>> ELSE EncodeNested(Elem(s))>>)

\* encoder.DeserializeRaw: the value, or the error
DeserializeRaw(s, p) ==
    LET r == DeserializeRawToValue(s, p) IN [v |-> r.v, err |-> r.err]

RECURSIVE decodeSchema(_)
RECURSIVE decodeFields(_, _, _)

\* the results of decodeSchema: (nil, e) and (s, nil)
failed(e) == [s |-> NilSchema, err |-> e]
decoded(s) == [s |-> s, err |-> ""]

\* decodeField once the encodedField is deserialized (d) and its schema
\* decoded (r)
fieldOf(d, r) ==
    IF r.err # "" THEN [f |-> <<>>, err |-> r.err]
    ELSE [f |-> [name |-> d.v[1], tag |-> d.v[2], schema |-> r.s], err |-> ""]

\* decodeField once the encodedField is deserialized (d)
decodeFieldOf(d) ==
    IF d.err # "" THEN [f |-> <<>>, err |-> d.err]
    ELSE fieldOf(d, decodeSchema(d.v[3]))

\* decodeField
decodeField(b) == decodeFieldOf(DeserializeRaw(encodedField, b))

\* one turn of the loop of decodeSchema over x.Fields, the i-th field
\* decoded to r
nextField(efs, i, fs, r) ==
    IF r.err # "" THEN [fs |-> <<>>, err |-> r.err]
    ELSE decodeFields(efs, i + 1, Append(fs, r.f))

\* the loop of decodeSchema over x.Fields[i..], after the fields fs
decodeFields(efs, i, fs) ==
    IF i > Len(efs) THEN [fs |-> fs, err |-> ""]
    ELSE nextField(efs, i, fs, decodeField(efs[i]))

\* a schema around the decoded element el, or the failure of el
withElem(el, ref, kind, name, len) ==
    IF el.err # "" THEN failed(el.err)
    ELSE decoded(Sch(ref, kind, name, len, <<el.s>>, <<>>))

\* a struct schema around the decoded fields fs, or their failure
withFields(fs, kind, name) ==
    IF fs.err # "" THEN failed(fs.err)
    ELSE decoded(Sch(ReferenceTypeNone, kind, name, 0, <<>>, fs.fs))

\* a mutant of decodeEncoded: the length of an array is not taken over
decodeEncodedNoLength(x) ==
    IF x.ReferenceType \in {ReferenceTypeSingle, ReferenceTypeSlice}
    THEN withElem(decodeSchema(x.Elem), x.ReferenceType, x.Kind, <<>>, 0)
    ELSE IF x.ReferenceType = ReferenceTypeDynamic
    THEN decoded(Sch(x.ReferenceType, x.Kind, <<>>, 0, <<>>, <<>>))
    ELSE IF x.ReferenceType # ReferenceTypeNone THEN failed(ErrInvalidEncodedSchema)
    ELSE CASE x.Kind = reflect.Slice ->
                withElem(decodeSchema(x.Elem), ReferenceTypeNone, x.Kind, x.Name, 0)
           [] x.Kind = reflect.Array ->
                withElem(decodeSchema(x.Elem), ReferenceTypeNone, x.Kind, x.Name, 0)
           [] x.Kind = reflect.Struct ->
                withFields(decodeFields(x.Fields, 1, <<>>), x.Kind, x.Name)
           [] OTHER -> decoded(Sch(ReferenceTypeNone, x.Kind, x.Name, 0, <<>>, <<>>))

\* decodeSchema after the deserialization: the Schema of the encodedSchema x
decodeEncoded(x) ==
    IF x.ReferenceType \in {ReferenceTypeSingle, ReferenceTypeSlice}
    THEN withElem(decodeSchema(x.Elem), x.ReferenceType, x.Kind, <<>>, 0)
    ELSE IF x.ReferenceType = ReferenceTypeDynamic
    THEN decoded(Sch(x.ReferenceType, x.Kind, <<>>, 0, <<>>, <<>>))
    ELSE IF x.ReferenceType # ReferenceTypeNone THEN failed(ErrInvalidEncodedSchema)
    ELSE CASE x.Kind = reflect.Slice ->
                withElem(decodeSchema(x.Elem), ReferenceTypeNone, x.Kind, x.Name, 0)
           [] x.Kind = reflect.Array ->
                withElem(decodeSchema(x.Elem), ReferenceTypeNone, x.Kind, x.Name, x.Len)
           [] x.Kind = reflect.Struct ->
                withFields(decodeFields(x.Fields, 1, <<>>), x.Kind, x.Name)
           [] OTHER -> decoded(Sch(ReferenceTypeNone, x.Kind, x.Name, 0, <<>>, <<>>))

\* decodeSchema once DeserializeRaw has returned d
decodeSchemaOf(d) ==
    IF d.err # "" THEN failed(d.err)
    ELSE decodeEncoded([ReferenceType |-> d.v[1], Kind |-> d.v[2], Name |-> d.v[3],
                        Len |-> d.v[4], Fields |-> d.v[5], Elem |-> d.v[6]])

\* decodeSchema
decodeSchema(b) == decodeSchemaOf(DeserializeRaw(encodedSchema, b))

(* The schemas and encodings the codec is driven with *)

\* a named scalar type
NamedScalar == Sch(ReferenceTypeNone, reflect.Uint8, NameB, 0, <<>>, <<>>)

CodecLeaves == Leaves \cup {Named(NameB), NamedScalar}

CodecShapes == UNION {SchemasOfSize(CodecLeaves, n) : n \in 1..MaxNodes}

\* every shape, and every struct under the name "A"
CodecUniverse ==
    CodecShapes
        \cup {[s EXCEPT !.name = NameA] :
                s \in {u \in CodecShapes : ~IsReference(u) /\ u.kind = reflect.Struct}}

\* the reference types and kinds written over the head of an encoding
ChangedRefs == 1..5
ChangedKinds ==
    {reflect.Invalid, reflect.Bool, reflect.Int, reflect.Uint, reflect.Complex64,
     reflect.Ptr, reflect.String, reflect.UnsafePointer + 1}

CodecIdle ==
    /\ cd_pc = "idle"
    /\ cd_schema = NilSchema
    /\ cd_bytes = <<>>
    /\ cd_changed = FALSE
    /\ cd_out = [s |-> NilSchema, err |-> ""]

CodecInit ==
    /\ cd_pc = "start"
    /\ cd_schema \in CodecUniverse
    /\ cd_bytes = <<>>
    /\ cd_changed = FALSE
    /\ cd_out = [s |-> NilSchema, err |-> ""]

\* b = s.Encode()
CodecEncode ==
    /\ cd_pc = "start"
    /\ cd_bytes' = EncodeSchema(cd_schema)
    /\ cd_pc' = "encoded"
    /\ UNCHANGED <<cd_schema, cd_changed, cd_out, not_cd>>

\* an encoded schema with another ReferenceType
CodecChangeRef ==
    /\ cd_pc = "encoded"
    /\ ~cd_changed
    /\ \E r \in ChangedRefs : cd_bytes' = LittleEndian(r, 4) \o From(cd_bytes, 4)
    /\ cd_changed' = TRUE
    /\ UNCHANGED <<cd_pc, cd_schema, cd_out, not_cd>>

\* an encoded schema with another Kind
CodecChangeKind ==
    /\ cd_pc = "encoded"
    /\ ~cd_changed
    /\ \E k \in ChangedKinds :
          cd_bytes' = Upto(cd_bytes, 4) \o LittleEndian(k, 4) \o From(cd_bytes, 8)
    /\ cd_changed' = TRUE
    /\ UNCHANGED <<cd_pc, cd_schema, cd_out, not_cd>>

\* s, err = decodeSchema(b)
CodecDecode ==
    /\ cd_pc = "encoded"
    /\ cd_out' = decodeSchema(cd_bytes)
    /\ cd_pc' = "decoded"
    /\ UNCHANGED <<cd_schema, cd_bytes, cd_changed, not_cd>>

CodecNext == CodecEncode \/ CodecChangeRef \/ CodecChangeKind \/ CodecDecode

(* Claims about the schema codec *)

\* C9: decoding the encoding of a schema S yields a schema structurally
\* equal to S: same reference type, kind, name, array length, element
\* schema and ordered fields (name, tag, schema).
C9_SchemaRoundTrip ==
    (cd_pc = "decoded" /\ ~cd_changed) => cd_out = [s |-> cd_schema, err |-> ""]

\* the struct registered as "A", with a field of references and a field of
\* the registered struct "B", has been encoded and decoded
C9_Witness ==
    /\ cd_pc = "decoded"
    /\ ~cd_changed
    /\ cd_schema.kind = reflect.Struct
    /\ cd_schema.name = NameA
    /\ Len(cd_schema.fields) = 2
    /\ cd_schema.fields[1].schema.ref = ReferenceTypeSlice
    /\ cd_schema.fields[1].tag = Tag(NameA)
    /\ cd_schema.fields[2].schema = Named(NameB)
    /\ cd_out.s = cd_schema

\* the ReferenceType and the Kind at the head of an encoded schema
HeadRef(b) == FromLittleEndian(SubSeq(b, 1, 4))
HeadKind(b) == FromLittleEndian(SubSeq(b, 5, 8))

RecognizedRefs ==
    {ReferenceTypeNone, ReferenceTypeSingle, ReferenceTypeSlice, ReferenceTypeDynamic}
RecognizedKinds ==
    {reflect.Bool, reflect.Int8, reflect.Uint8, reflect.Int16, reflect.Uint16,
     reflect.Int32, reflect.Uint32, reflect.Float32, reflect.Int64,
     reflect.Uint64, reflect.Float64, reflect.String, reflect.Slice,
     reflect.Array, reflect.Struct}

\* C10: decodeSchema fails with ErrInvalidEncodedSchema, and returns no
\* schema, for every encoded schema whose reference type or kind is outside
\* the recognized set.
C10_InvalidRejected ==
    (cd_pc = "decoded"
        /\ (HeadRef(cd_bytes) \notin RecognizedRefs \/ HeadKind(cd_bytes) \notin RecognizedKinds))
        => cd_out = [s |-> NilSchema, err |-> ErrInvalidEncodedSchema]

----------------------------------------------------------------------------
(* The registrar: Reg, and the schemas it creates of Go types *)

\* A reflect.Type goes by its identifier; GoType gives its kind, its
\* Name(), its Len(), its Elem() and its fields.
GoType(k, nm, l, el, fs) ==
    [kind |-> k, name |-> nm, len |-> l, elem |-> el, fields |-> fs]

\* a reflect.StructField
StructField(nm, tag, typ, pkgPath) ==
    [name |-> nm, tag |-> tag, typ |-> typ, pkgPath |-> pkgPath]

\* the tag `enc:"-"`; the tag `skyobject:"schema=X"` is SchemaTag(X)
EncSkip == <<<<<<101, 110, 99>>, <<45>>>>>>

\* reflect.StructTag.Get: the value of the first key, or ""
RECURSIVE Get(_, _)
Get(tag, key) ==
    IF tag = <<>> THEN <<>>
    ELSE IF tag[1][1] = key THEN tag[1][2]
    ELSE Get(Tail(tag), key)

typeOfRef == "Ref"
typeOfRefs == "Refs"
typeOfDynamic == "Dynamic"

\* The types of the model:
\*   type User struct {F1 string; F2 uint32}
\*   type Group struct {F1 string; F2 Refs `schema=A`}
\*   type Node struct {F1 Ref `schema=B`; F2 Dynamic; f uint32; F4 string `enc:"-"`}
\*   type Team struct {F1 User; F2 []User; F3 [2]User}
\*   type Bad struct {F1 Ref}
\*   type Bag struct {F1 []Dynamic}
\*   type Box struct {F1 []Ref}
TypeOf(t) ==
    CASE t = "string" -> GoType(reflect.String, KindName(reflect.String), 0, "", <<>>)
      [] t = "uint32" -> GoType(reflect.Uint32, KindName(reflect.Uint32), 0, "", <<>>)
      [] t = "int" -> GoType(reflect.Int, KindName(reflect.Int), 0, "", <<>>)
      [] t = typeOfRef -> GoType(reflect.Array, <<82, 101, 102>>, SHA256Len, "uint8", <<>>)
      [] t = typeOfRefs -> GoType(reflect.Slice, <<82, 101, 102, 115>>, 0, typeOfRef, <<>>)
      [] t = typeOfDynamic -> GoType(reflect.Struct, <<68, 121, 110, 97, 109, 105, 99>>, 0, "", <<>>)
      [] t = "User" ->
            GoType(reflect.Struct, <<85, 115, 101, 114>>, 0, "",
                <<StructField(<<70, 49>>, <<>>, "string", <<>>),
                  StructField(<<70, 50>>, <<>>, "uint32", <<>>)>>)
      [] t = "Group" ->
            GoType(reflect.Struct, <<71, 114, 111, 117, 112>>, 0, "",
                <<StructField(<<70, 49>>, <<>>, "string", <<>>),
                  StructField(<<70, 50>>, SchemaTag(NameA), typeOfRefs, <<>>)>>)
      [] t = "Node" ->
            GoType(reflect.Struct, <<78, 111, 100, 101>>, 0, "",
                <<StructField(<<70, 49>>, SchemaTag(NameB), typeOfRef, <<>>),
                  StructField(<<70, 50>>, <<>>, typeOfDynamic, <<>>),
                  StructField(<<102>>, <<>>, "uint32", <<109>>),
                  StructField(<<70, 52>>, EncSkip, "string", <<>>)>>)
      [] t = "Team" ->
            GoType(reflect.Struct, <<84, 101, 97, 109>>, 0, "",
                <<StructField(<<70, 49>>, <<>>, "User", <<>>),
                  StructField(<<70, 50>>, <<>>, "[]User", <<>>),
                  StructField(<<70, 51>>, <<>>, "[2]User", <<>>)>>)
      [] t = "[]User" -> GoType(reflect.Slice, <<>>, 0, "User", <<>>)
      [] t = "[2]User" -> GoType(reflect.Array, <<>>, 2, "User", <<>>)
      [] t = "Bad" ->
            GoType(reflect.Struct, <<66, 97, 100>>, 0, "",
                <<StructField(<<70, 49>>, <<>>, typeOfRef, <<>>)>>)
      [] t = "Bag" ->
            GoType(reflect.Struct, <<66, 97, 103>>, 0, "",
                <<StructField(<<70, 49>>, <<>>, "[]Dynamic", <<>>)>>)
      [] t = "[]Dynamic" -> GoType(reflect.Slice, <<>>, 0, typeOfDynamic, <<>>)
      [] t = "Box" ->
            GoType(reflect.Struct, <<66, 111, 120>>, 0, "",
                <<StructField(<<70, 49>>, <<>>, "[]Ref", <<>>)>>)
      [] t = "[]Ref" -> GoType(reflect.Slice, <<>>, 0, typeOfRef, <<>>)

\* what a panic of getSchema leaves in the place of a schema
Panicked == Sch(-2, reflect.Invalid, <<>>, 0, <<>>, <<>>)

\* Reg.tn, the map of types to registered names, is a set of (typ, name)
\* with one name a type
HasType(tn, typ) == \E e \in tn : e.typ = typ
NameOfType(tn, typ) == (CHOOSE e \in tn : e.typ = typ).name

\* Reg.Register: the map after the call, or the panic
Register(tn, name, typ) ==
    IF name = <<>> THEN [tn |-> tn, panic |-> "empty name"]
    ELSE IF typ \in {typeOfRef, typeOfRefs, typeOfDynamic}
    THEN [tn |-> tn, panic |-> "can't register reference type"]
    ELSE IF \E e \in tn : e.name = name
    THEN [tn |-> tn, panic |-> "this name already registered"]
    ELSE [tn |-> {e \in tn : e.typ # typ} \cup {[typ |-> typ, name |-> name]},
          panic |-> ""]

\* Reg.typeName
typeName(tn, typ) ==
    IF HasType(tn, typ) THEN NameOfType(tn, typ) ELSE TypeOf(typ).name

\* strings.HasPrefix
HasPrefix(s, p) == Len(s) >= Len(p) /\ SubSeq(s, 1, Len(p)) = p

\* strings.Split at the byte c: before the first c, then the split of the
\* rest
RECURSIVE Split(_, _)
splitAt(s, c, i) ==
    <<SubSeq(s, 1, i - 1)>> \o Split(SubSeq(s, i + 1, Len(s)), c)
Split(s, c) ==
    IF \A i \in 1..Len(s) : s[i] # c THEN <<s>>
    ELSE splitAt(s, c, CHOOSE i \in 1..Len(s) :
                          s[i] = c /\ \A j \in 1..(i - 1) : s[j] # c)

\* TagSchemaName: ss is the part "schema=..." split at "="
schemaNameOf(ss) ==
    IF Len(ss) # 2 THEN [sch |-> <<>>, err |-> "invalid schema tag"]
    ELSE IF ss[2] = <<>> THEN [sch |-> <<>>, err |-> "empty tag schema name"]
    ELSE [sch |-> ss[2], err |-> ""]

\* TagSchemaName: the loop over the parts of the tag, the first part with
\* the prefix "schema=" decides
RECURSIVE schemaPart(_)
schemaPart(parts) ==
    IF parts = <<>> THEN [sch |-> <<>>, err |-> "invalid skyobject tag"]
    ELSE IF HasPrefix(Head(parts), SchemaPrefix) THEN schemaNameOf(Split(Head(parts), 61))
    ELSE schemaPart(Tail(parts))

\* TagSchemaName: the name X of the tag `skyobject:"schema=X"`
TagSchemaName(tag) ==
    IF Get(tag, TAG) = <<>>
    THEN [sch |-> <<>>, err |-> "empty skyobject tag"]
    ELSE schemaPart(Split(Get(tag, TAG), 44))

\* &schema{SchemaRef{}, el.Kind(), el.RawName()}: the placeholder of a
\* registered schema
placeholder(el) == Sch(ReferenceTypeNone, el.kind, el.name, 0, <<>>, <<>>)

\* a schema as an element or a field: a registered one by its placeholder
nested(el) == IF IsRegistered(el) THEN placeholder(el) ELSE el

\* the schema of a Ref or Refs field with the given tag; mustTagSchemaName
\* panics on a tag without a schema name
tagged(rt, kind, t) ==
    IF t.err # "" THEN Panicked
    ELSE Sch(rt, kind, <<>>, 0, <<Named(t.sch)>>, <<>>)

\* the fields getSchema leaves out
Skipped(sf) == Get(sf.tag, <<101, 110, 99>>) = <<45>> \/ sf.pkgPath # <<>> \/ sf.name = <<95>>
Kept(sf) == ~Skipped(sf)

RECURSIVE getSchema(_, _)

\* Reg.getField
getField(tn, sf) ==
    [name |-> sf.name,
     tag |-> TagBytes(sf.tag),
     schema |->
        CASE sf.typ = typeOfRef ->
                tagged(ReferenceTypeSingle, TypeOf(sf.typ).kind, TagSchemaName(sf.tag))
          [] sf.typ = typeOfRefs ->
                tagged(ReferenceTypeSlice, TypeOf(sf.typ).kind, TagSchemaName(sf.tag))
          [] sf.typ = typeOfDynamic ->
                Sch(ReferenceTypeDynamic, TypeOf(sf.typ).kind, <<>>, 0, <<>>, <<>>)
          [] OTHER -> nested(getSchema(tn, sf.typ))]

\* the fields of a struct type that getSchema takes
keptFields(typ) == SelectSeq(TypeOf(typ).fields, Kept)

\* Reg.getSchema
getSchema(tn, typ) ==
    IF typ = typeOfDynamic
    THEN Sch(ReferenceTypeDynamic, TypeOf(typ).kind, <<>>, 0, <<>>, <<>>)
    ELSE IF typ \in {typeOfRef, typeOfRefs} THEN Panicked
    ELSE CASE TypeOf(typ).kind \in
                {reflect.Bool, reflect.Int8, reflect.Uint8, reflect.Int16,
                 reflect.Uint16, reflect.Int32, reflect.Uint32, reflect.Float32,
                 reflect.Int64, reflect.Uint64, reflect.Float64, reflect.String} ->
                Sch(ReferenceTypeNone, TypeOf(typ).kind, typeName(tn, typ), 0, <<>>, <<>>)
           [] TypeOf(typ).kind = reflect.Slice ->
                Sch(ReferenceTypeNone, reflect.Slice, typeName(tn, typ), 0,
                    <<nested(getSchema(tn, TypeOf(typ).elem))>>, <<>>)
           [] TypeOf(typ).kind = reflect.Array ->
                Sch(ReferenceTypeNone, reflect.Array, typeName(tn, typ), TypeOf(typ).len,
                    <<nested(getSchema(tn, TypeOf(typ).elem))>>, <<>>)
           [] TypeOf(typ).kind = reflect.Struct ->
                Sch(ReferenceTypeNone, reflect.Struct, typeName(tn, typ), 0, <<>>,
                    [i \in 1..Len(keptFields(typ)) |-> getField(tn, keptFields(typ)[i])])
           [] OTHER -> Panicked

RECURSIVE panics(_)

\* whether getSchema panicked while it made s
panics(s) ==
    \/ s = Panicked
    \/ s.elem # <<>> /\ panics(Elem(s))
    \/ \E i \in 1..Len(s.fields) : panics(s.fields[i].schema)

----------------------------------------------------------------------------
(* The Registry: schema objects, register and finialize *)

\* A schema object of the heap is a Schema whose element (0: none) and
\* field schemas are addresses of the heap.
Object(s, el, fs) ==
    [ref |-> s.ref, kind |-> s.kind, name |-> s.name, len |-> s.len,
     elem |-> el, fields |-> fs]

RECURSIVE Alloc(_, _)
RECURSIVE AllocFields(_, _, _, _)

\* the heap with the objects of the schema s allocated, and the address of s
allocated(r, s, el) ==
    [h |-> Append(r.h, Object(s, el, r.fs)), id |-> Len(r.h) + 1]

allocatedElem(r, s) == allocated([h |-> r.h, fs |-> <<>>], s, r.id)

Alloc(h, s) ==
    IF s.elem # <<>> THEN allocatedElem(Alloc(h, Elem(s)), s)
    ELSE allocated(AllocFields(h, s.fields, 1, <<>>), s, 0)

allocatedField(r, fs, i, out) ==
    AllocFields(r.h, fs, i + 1,
        Append(out, [name |-> fs[i].name, tag |-> fs[i].tag, schema |-> r.id]))

AllocFields(h, fs, i, out) ==
    IF i > Len(fs) THEN [h |-> h, fs |-> out]
    ELSE allocatedField(Alloc(h, fs[i].schema), fs, i, out)

RECURSIVE StrLess(_, _)

\* a < b of two Go strings
StrLess(a, b) ==
    IF b = <<>> THEN FALSE
    ELSE IF a = <<>> THEN TRUE
    ELSE IF Head(a) # Head(b) THEN Head(a) < Head(b)
    ELSE StrLess(Tail(a), Tail(b))

RECURSIVE SortNames(_)

\* the names of S in the order of registryEntities.Less
SortNames(S) ==
    IF S = {} THEN <<>>
    ELSE <<CHOOSE n \in S : \A m \in S \ {n} : StrLess(n, m)>>
            \o SortNames(S \ {CHOOSE n \in S : \A m \in S \ {n} : StrLess(n, m)})

\* the empty maps of a new Registry
NoReg == [n \in {} |-> 0]
NoTypes == [n \in {} |-> ""]

\* Registry.register fails: getSchema panics, or a type is not a named
\* structure
registerPanics(tn) ==
    \E e \in tn : panics(getSchema(tn, e.typ)) \/ ~IsRegistered(getSchema(tn, e.typ))

RECURSIVE registered(_, _, _, _, _)

\* r.reg[name] = s of one turn of the loop of Registry.register
stored(tn, ns, i, r, reg) ==
    registered(tn, ns, i + 1, r.h, [n \in DOMAIN reg \cup {ns[i]} |->
                                        IF n = ns[i] THEN r.id ELSE reg[n]])

\* Registry.register: the heap and r.reg after the loop over the registered
\* types ns[i..]
registered(tn, ns, i, h, reg) ==
    IF i > Len(ns) THEN [h |-> h, reg |-> reg]
    ELSE stored(tn, ns, i,
            Alloc(h, getSchema(tn, (CHOOSE e \in tn : e.name = ns[i]).typ)), reg)

\* Registry.register: the loop in the order of the names; the order of the
\* map decides the addresses of the schemas alone
register(tn) == registered(tn, SortNames({e.name : e \in tn}), 1, <<>>, NoReg)

\* r.nt after Registry.register
namedTypes(tn) ==
    [n \in {e.name : e \in tn} |-> (CHOOSE e \in tn : e.name = n).typ]

RECURSIVE TreeOf(_, _)

\* a schema object as it is encoded inside another: a registered one by its
\* name
SubTree(h, c) == IF IsRegistered(h[c]) THEN Named(h[c].name) ELSE TreeOf(h, c)

\* the Schema that the object at the address id describes
TreeOf(h, id) ==
    Sch(h[id].ref, h[id].kind, h[id].name, h[id].len,
        IF h[id].elem = 0 THEN <<>> ELSE <<SubTree(h, h[id].elem)>>,
        [i \in 1..Len(h[id].fields) |->
            [name |-> h[id].fields[i].name, tag |-> h[id].fields[i].tag,
             schema |-> SubTree(h, h[id].fields[i].schema)]])

\* cipher.SumSHA256: a digest stands for the bytes it was made of
SumSHA256(b) == [sha256 |-> b]
NoRef == [sha256 |-> <<>>]

\* type registryEntity struct {Name string; Schema []byte}
registryEntity == GoStruct(<<"Name", "Schema">>, <<String, Bytes>>)
registryEntities == SliceOf(registryEntity)

\* Registry.Encode
RegistryEncode(h, reg) ==
    Serialize(registryEntities,
        [i \in 1..Len(SortNames(DOMAIN reg)) |->
            <<SortNames(DOMAIN reg)[i],
              EncodeSchema(TreeOf(h, reg[SortNames(DOMAIN reg)[i]]))>>])

\* r.srf after the second loop of finialize: Schema.Reference() -> schema
byReference(h, reg) ==
    {[ref |-> SumSHA256(EncodeSchema(TreeOf(h, reg[n]))), s |-> reg[n]] : n \in DOMAIN reg}

\* r.reg[name] = s, r.srf[ref] = s
put(reg, name, s) == [n \in DOMAIN reg \cup {name} |-> IF n = name THEN s ELSE reg[n]]
putRef(srf, ref, s) == {e \in srf : e.ref # ref} \cup {[ref |-> ref, s |-> s]}

\* what DecodeRegistry leaves: the heap, r.reg, r.srf, the error, the panic
decodeResult(h, reg, srf, err, panic) ==
    [h |-> h, reg |-> reg, srf |-> srf, err |-> err, panic |-> panic]

RECURSIVE decodeEntries(_, _, _, _, _)

\* DecodeRegistry: the entry es[i] is decoded to the schema s at the address
\* a.id, r.reg[re.Name] = s and r.srf[s.Reference()] = s
storedEntry(es, i, reg, srf, s, a) ==
    decodeEntries(es, i + 1, a.h, put(reg, es[i][1], a.id),
                  putRef(srf, SumSHA256(EncodeSchema(s)), a.id))

\* DecodeRegistry: one turn of the loop, decodeSchema(re.Schema) returned r.
\* The error is not looked at: a nil Schema is stored, and s.Reference() on
\* the nil Schema panics.
decodedEntry(es, i, h, reg, srf, r) ==
    IF r.err # ""
    THEN decodeResult(h, put(reg, es[i][1], 0), srf, r.err,
                      "invalid memory address or nil pointer dereference")
    ELSE storedEntry(es, i, reg, srf, r.s, Alloc(h, r.s))

\* a loop that ends after the first entry
decodeFirstOnly(es, i, h, reg, srf) ==
    IF i > Min(1, Len(es)) THEN decodeResult(h, reg, srf, "", "")
    ELSE decodedEntry(es, i, h, reg, srf, decodeSchema(es[i][2]))

\* DecodeRegistry: the loop over the entries es[i..]
decodeEntries(es, i, h, reg, srf) ==
    IF i > Len(es) THEN decodeResult(h, reg, srf, "", "")
    ELSE decodedEntry(es, i, h, reg, srf, decodeSchema(es[i][2]))

\* DecodeRegistry once DeserializeRaw has returned d
decodedRegistry(d) ==
    IF d.err # "" THEN decodeResult(<<>>, NoReg, {}, d.err, "")
    ELSE decodeEntries(d.v, 1, <<>>, NoReg, {})

\* DecodeRegistry up to r.finialize()
DecodeRegistry(b) == decodedRegistry(DeserializeRaw(registryEntities, b))

\* the number of schemas that fillSchema goes into from the schema o (the
\* ReferenceType of a reference that getSchema made is never invalid)
children(o) ==
    IF IsReference(o)
    THEN (IF o.ref \in {ReferenceTypeSingle, ReferenceTypeSlice} THEN 1 ELSE 0)
    ELSE CASE o.kind \in {reflect.Array, reflect.Slice} -> 1
           [] o.kind = reflect.Struct -> Len(o.fields)
           [] OTHER -> 0

\* the i-th of them
child(o, i) == IF o.elem # 0 THEN o.elem ELSE o.fields[i].schema

\* x.elem = c, x.schema = c
withChild(o, i, c) ==
    IF o.elem # 0 THEN [o EXCEPT !.elem = c] ELSE [o EXCEPT !.fields[i].schema = c]

\* fillSchema takes the schema c inside o from the registry by its name: the
\* element of a reference, and a registered element or field
resolves(o, c) == IsReference(o) \/ IsRegistered(c)

\* a mutant of isFilled: no schema is taken for filled
neverFilled(h, s, filled) == FALSE

\* a mutant of isFilled: the filled schemas go by their names
filledByName(h, s, filled) == \E f \in filled : h[f].name = h[s].name

\* _, ok := filled[s]
isFilled(h, s, filled) == s \in filled

(* The registrations the registry is driven with *)

RegNames == {NameA, NameB}

\* the Register calls of a closure given to NewRegistry
Decls ==
    {[name |-> n, typ |-> t] : n \in RegNames, t \in {"User", "Group", "Node", "Team"}}
        \cup {[name |-> <<>>, typ |-> "User"], [name |-> NameA, typ |-> typeOfRef],
              [name |-> NameB, typ |-> "string"], [name |-> NameB, typ |-> "Bad"],
              [name |-> NameA, typ |-> "Bag"], [name |-> NameB, typ |-> "Box"]}

DeclSets == {D \in SUBSET Decls : Cardinality(D) <= MaxDecls}

\* no Registry built before
NoPrev == [built |-> FALSE, enc |-> <<>>, ref |-> NoRef]

RegIdle ==
    /\ rg_pc = "idle"
    /\ rg_decls = {}
    /\ rg_todo = {}
    /\ rg_tn = {}
    /\ rg_nt = NoTypes
    /\ rg_heap = <<>>
    /\ rg_reg = NoReg
    /\ rg_srf = {}
    /\ rg_filled = {}
    /\ rg_stack = <<>>
    /\ rg_iter = {}
    /\ rg_visits = <<>>
    /\ rg_enc = <<>>
    /\ rg_ref = NoRef
    /\ rg_prev = NoPrev

\* NewRegistry is called with a closure that makes the calls rg_decls
RegInit ==
    /\ rg_pc = "closure"
    /\ rg_decls \in DeclSets
    /\ rg_todo = rg_decls
    /\ rg_tn = {}
    /\ rg_nt = NoTypes
    /\ rg_heap = <<>>
    /\ rg_reg = NoReg
    /\ rg_srf = {}
    /\ rg_filled = {}
    /\ rg_stack = <<>>
    /\ rg_iter = {}
    /\ rg_visits = <<>>
    /\ rg_enc = <<>>
    /\ rg_ref = NoRef
    /\ rg_prev = NoPrev

\* t.Register(name, val): the next call of the closure, in any order
RegRegister ==
    /\ rg_pc = "closure"
    /\ \E d \in rg_todo :
        /\ rg_tn' = Register(rg_tn, d.name, d.typ).tn
        /\ rg_pc' = IF Register(rg_tn, d.name, d.typ).panic # "" THEN "panic" ELSE "closure"
        /\ rg_todo' = rg_todo \ {d}
    /\ UNCHANGED <<rg_decls, rg_nt, rg_heap, rg_reg, rg_srf, rg_filled, rg_stack,
                   rg_iter, rg_visits, rg_enc, rg_ref, rg_prev, not_rg>>

\* NewRegistry after the closure: r.register(reg), and finialize up to its
\* first loop
RegNewRegistry ==
    /\ rg_pc = "closure"
    /\ rg_todo = {}
    /\ IF registerPanics(rg_tn)
       THEN /\ rg_pc' = "panic"
            /\ UNCHANGED <<rg_nt, rg_heap, rg_reg, rg_iter, rg_visits>>
       ELSE /\ rg_pc' = "fill"
            /\ rg_nt' = namedTypes(rg_tn)
            /\ rg_heap' = register(rg_tn).h
            /\ rg_reg' = register(rg_tn).reg
            /\ rg_iter' = DOMAIN register(rg_tn).reg
            /\ rg_visits' = [i \in 1..Len(register(rg_tn).h) |-> 0]
    /\ UNCHANGED <<rg_decls, rg_todo, rg_tn, rg_srf, rg_filled, rg_stack,
                   rg_enc, rg_ref, rg_prev, not_rg>>

\* the frame of the running fillSchema
Top == rg_stack[Len(rg_stack)]
\* the stack when the running fillSchema returns
Returned == SubSeq(rg_stack, 1, Len(rg_stack) - 1)

\* finialize: r.fillSchema(sch, filled) for the next sch of r.reg, in the
\* order of the map
FinalizeRange ==
    /\ rg_pc = "fill"
    /\ rg_stack = <<>>
    /\ \E n \in rg_iter :
        /\ rg_iter' = rg_iter \ {n}
        /\ rg_stack' = <<[s |-> rg_reg[n], i |-> 0]>>
    /\ UNCHANGED <<rg_pc, rg_decls, rg_todo, rg_tn, rg_nt, rg_heap, rg_reg, rg_srf,
                   rg_filled, rg_visits, rg_enc, rg_ref, rg_prev, not_rg>>

\* fillSchema: s is filled already
FillSkip ==
    /\ rg_pc = "fill"
    /\ rg_stack # <<>>
    /\ Top.i = 0
    /\ isFilled(rg_heap, Top.s, rg_filled)
    /\ rg_stack' = Returned
    /\ UNCHANGED <<rg_pc, rg_decls, rg_todo, rg_tn, rg_nt, rg_heap, rg_reg, rg_srf,
                   rg_filled, rg_iter, rg_visits, rg_enc, rg_ref, rg_prev, not_rg>>

\* fillSchema: filled[s] = struct{}{}
FillEnter ==
    /\ rg_pc = "fill"
    /\ rg_stack # <<>>
    /\ Top.i = 0
    /\ ~isFilled(rg_heap, Top.s, rg_filled)
    /\ rg_visits[Top.s] < MaxVisits
    /\ rg_filled' = rg_filled \cup {Top.s}
    /\ rg_visits' = [rg_visits EXCEPT ![Top.s] = @ + 1]
    /\ rg_stack' = [rg_stack EXCEPT ![Len(rg_stack)].i = 1]
    /\ UNCHANGED <<rg_pc, rg_decls, rg_todo, rg_tn, rg_nt, rg_heap, rg_reg, rg_srf,
                   rg_iter, rg_enc, rg_ref, rg_prev, not_rg>>

\* the schema fillSchema is at, and the schema inside it that is next
At == rg_heap[Top.s]
Inner == rg_heap[child(At, Top.i)]

\* fillSchema: the element, or the next field, is taken from the registry
\* when it goes by its name, and filled
FillChild ==
    /\ rg_pc = "fill"
    /\ rg_stack # <<>>
    /\ Top.i >= 1
    /\ Top.i <= children(At)
    /\ IF resolves(At, Inner)
       THEN /\ Inner.name \in DOMAIN rg_reg
            /\ rg_heap' = [rg_heap EXCEPT ![Top.s] = withChild(At, Top.i, rg_reg[Inner.name])]
            /\ rg_stack' = Append([rg_stack EXCEPT ![Len(rg_stack)].i = Top.i + 1],
                                  [s |-> rg_reg[Inner.name], i |-> 0])
       ELSE /\ rg_heap' = rg_heap
            /\ rg_stack' = Append([rg_stack EXCEPT ![Len(rg_stack)].i = Top.i + 1],
                                  [s |-> child(At, Top.i), i |-> 0])
    /\ UNCHANGED <<rg_pc, rg_decls, rg_todo, rg_tn, rg_nt, rg_reg, rg_srf, rg_filled,
                   rg_iter, rg_visits, rg_enc, rg_ref, rg_prev, not_rg>>

\* fillSchema: schemaByName fails, panic(err)
FillPanic ==
    /\ rg_pc = "fill"
    /\ rg_stack # <<>>
    /\ Top.i >= 1
    /\ Top.i <= children(At)
    /\ resolves(At, Inner)
    /\ Inner.name \notin DOMAIN rg_reg
    /\ rg_pc' = "panic"
    /\ UNCHANGED <<rg_decls, rg_todo, rg_tn, rg_nt, rg_heap, rg_reg, rg_srf, rg_filled,
                   rg_stack, rg_iter, rg_visits, rg_enc, rg_ref, rg_prev, not_rg>>

\* fillSchema returns
FillReturn ==
    /\ rg_pc = "fill"
    /\ rg_stack # <<>>
    /\ Top.i >= 1
    /\ Top.i > children(At)
    /\ rg_stack' = Returned
    /\ UNCHANGED <<rg_pc, rg_decls, rg_todo, rg_tn, rg_nt, rg_heap, rg_reg, rg_srf,
                   rg_filled, rg_iter, rg_visits, rg_enc, rg_ref, rg_prev, not_rg>>

\* finialize after its first loop: r.srf, r.Encode() and r.ref
FinalizeEnd ==
    /\ rg_pc = "fill"
    /\ rg_stack = <<>>
    /\ rg_iter = {}
    /\ rg_srf' = {e \in rg_srf : \A f \in byReference(rg_heap, rg_reg) : f.ref # e.ref}
                    \cup byReference(rg_heap, rg_reg)
    /\ rg_enc' = RegistryEncode(rg_heap, rg_reg)
    /\ rg_ref' = SumSHA256(RegistryEncode(rg_heap, rg_reg))
    /\ rg_pc' = "done"
    /\ UNCHANGED <<rg_decls, rg_todo, rg_tn, rg_nt, rg_heap, rg_reg, rg_filled,
                   rg_stack, rg_iter, rg_visits, rg_prev, not_rg>>

\* NewRegistry is called once more with the same calls, the Encode() and
\* the Reference() of the first Registry kept
RegAgain ==
    /\ rg_pc = "done"
    /\ ~rg_prev.built
    /\ ~dr_in.decoded
    /\ rg_prev' = [built |-> TRUE, enc |-> rg_enc, ref |-> rg_ref]
    /\ rg_pc' = "closure"
    /\ rg_todo' = rg_decls
    /\ rg_tn' = {}
    /\ rg_nt' = NoTypes
    /\ rg_heap' = <<>>
    /\ rg_reg' = NoReg
    /\ rg_srf' = {}
    /\ rg_filled' = {}
    /\ rg_stack' = <<>>
    /\ rg_iter' = {}
    /\ rg_visits' = <<>>
    /\ rg_enc' = <<>>
    /\ rg_ref' = NoRef
    /\ UNCHANGED <<rg_decls, not_rg>>

\* schema bytes that decodeSchema fails on: too short, and with a
\* ReferenceType that there is not
BadSchemas ==
    {<<>>, Serialize(encodedSchema, <<7, reflect.Struct, <<>>, 0, <<>>, <<>>>>)}

\* the entries es, encoded with the schema of one of them replaced by a bad
\* one
brokenEntries(es) ==
    {Serialize(registryEntities, [es EXCEPT ![i] = <<es[i][1], bad>>]) :
        i \in 1..Len(es), bad \in BadSchemas}

\* the inputs of DecodeRegistry made of the bytes enc of a Registry: enc,
\* enc without its last byte, and enc with an entry broken
WireInputs(enc) ==
    {enc, Upto(enc, Len(enc) - 1)}
        \cup brokenEntries(DeserializeRaw(registryEntities, enc).v)

\* no DecodeRegistry yet
NoInput == [decoded |-> FALSE, b |-> <<>>, enc |-> <<>>, ref |-> NoRef, names |-> {}]

DrIdle ==
    /\ dr_in = NoInput
    /\ dr_err = ""

\* the Registry DecodeRegistry(b) makes, r, takes the place of the local one
decodedInto(r) ==
    /\ rg_pc' = IF r.panic # "" THEN "panic" ELSE IF r.err # "" THEN "failed" ELSE "fill"
    /\ dr_err' = r.err
    /\ rg_heap' = r.h
    /\ rg_reg' = r.reg
    /\ rg_srf' = r.srf
    /\ rg_iter' = IF r.panic # "" \/ r.err # "" THEN {} ELSE DOMAIN r.reg
    /\ rg_visits' = [i \in 1..Len(r.h) |-> 0]

\* DecodeRegistry(b) for an input b made of the Encode() of the finialized
\* Registry, up to the first loop of finialize
RegDecodeRegistry ==
    /\ rg_pc = "done"
    /\ ~dr_in.decoded
    /\ \E b \in WireInputs(rg_enc) :
        /\ dr_in' = [decoded |-> TRUE, b |-> b, enc |-> rg_enc, ref |-> rg_ref,
                     names |-> DOMAIN rg_reg]
        /\ decodedInto(DecodeRegistry(b))
    /\ rg_tn' = {}
    /\ rg_nt' = NoTypes
    /\ rg_filled' = {}
    /\ rg_stack' = <<>>
    /\ rg_enc' = <<>>
    /\ rg_ref' = NoRef
    /\ UNCHANGED <<rg_decls, rg_todo, rg_prev, not_dr>>

\* the steps of the first loop of finialize
FillNext ==
    \/ FinalizeRange
    \/ FillSkip
    \/ FillEnter
    \/ FillChild
    \/ FillPanic
    \/ FillReturn

RegNext ==
    \/ RegRegister
    \/ RegNewRegistry
    \/ FinalizeRange
    \/ FillSkip
    \/ FillEnter
    \/ FillChild
    \/ FillPanic
    \/ FillReturn
    \/ FinalizeEnd
    \/ RegAgain
    \/ RegDecodeRegistry

(* Claims about the registry *)

\* C3: the Registry built of the same Register calls made in another order
\* has the same Encode() output, byte for byte, and the same Reference().
C3_OrderIndependent ==
    (rg_pc = "done" /\ rg_prev.built) => (rg_enc = rg_prev.enc /\ rg_ref = rg_prev.ref)

\* every Register call of the closure has another type
DistinctTypes == \A d, e \in rg_decls : d.typ = e.typ => d = e

\* fillSchema went into every schema object at most once
AtMostOnce == \A s \in 1..Len(rg_visits) : rg_visits[s] <= 1

\* every name that a schema object goes by is registered
Closed ==
    \A s \in 1..Len(rg_heap) :
        (rg_heap[s].kind = reflect.Struct /\ rg_heap[s].name # <<>>)
            => rg_heap[s].name \in DOMAIN rg_reg

\* the first loop of finialize, the pass of fillSchema over r.reg, is over
Filled == rg_pc = "done" \/ (rg_pc = "fill" /\ rg_stack = <<>> /\ rg_iter = {})

\* C4: fillSchema goes into each schema object at most once, and the pass
\* of finialize over a registry with all names registered comes to its end,
\* over one whose schemas refer to each other in a cycle too.
C4_FinalizeTerminates ==
    /\ [](AtMostOnce)
    /\ (rg_pc = "fill" /\ Closed) ~> Filled

\* "A" (Node) refers to "B" and "B" (Group) refers to "A": finialize is done,
\* after fillSchema met a schema that was filled already
C4_Witness ==
    /\ rg_pc = "done"
    /\ rg_decls = {[name |-> NameA, typ |-> "Node"], [name |-> NameB, typ |-> "Group"]}
    /\ rg_heap[rg_heap[rg_reg[NameA]].fields[1].schema].elem = rg_reg[NameB]
    /\ rg_heap[rg_heap[rg_reg[NameB]].fields[2].schema].elem = rg_reg[NameA]
    /\ rg_filled = 1..Len(rg_heap) \ {s \in 1..Len(rg_heap) : rg_visits[s] = 0}
    /\ \A s \in rg_filled : rg_visits[s] = 1

\* the addresses that the schema object at the address s holds
Inside(h, s) ==
    {h[s].fields[i].schema : i \in 1..Len(h[s].fields)}
        \cup (IF h[s].elem # 0 THEN {h[s].elem} ELSE {})

RECURSIVE Reach(_, _)

\* the addresses reachable from the addresses S in the heap h
Reach(h, S) ==
    IF UNION {Inside(h, s) : s \in S} \subseteq S THEN S
    ELSE Reach(h, S \cup UNION {Inside(h, s) : s \in S})

\* the schema at the address c is the one stored in the registry under its name
IsStored(c) ==
    /\ rg_heap[c].name \in DOMAIN rg_reg
    /\ rg_reg[rg_heap[c].name] = c

\* C5: after finialize every named field schema, every named element of an
\* array or slice and every target of a Reference or References that is
\* reachable from a registry entry is the schema object stored in the
\* registry under that name.
C5_NoPlaceholderLeft ==
    rg_pc = "done" =>
        \A s \in Reach(rg_heap, {rg_reg[n] : n \in DOMAIN rg_reg}) :
            /\ \A i \in 1..Len(rg_heap[s].fields) :
                  IsRegistered(rg_heap[rg_heap[s].fields[i].schema])
                      => IsStored(rg_heap[s].fields[i].schema)
            /\ (rg_heap[s].elem # 0
                    /\ (IsRegistered(rg_heap[rg_heap[s].elem])
                            \/ rg_heap[s].ref \in {ReferenceTypeSingle, ReferenceTypeSlice}))
                  => IsStored(rg_heap[s].elem)

\* "A" is User and "B" is Team: the field, the slice and the array of Team
\* hold the schema object of "A"
C5_Witness ==
    /\ rg_pc = "done"
    /\ rg_decls = {[name |-> NameA, typ |-> "User"], [name |-> NameB, typ |-> "Team"]}
    /\ rg_heap[rg_reg[NameB]].fields[1].schema = rg_reg[NameA]
    /\ rg_heap[rg_heap[rg_reg[NameB]].fields[2].schema].elem = rg_reg[NameA]
    /\ rg_heap[rg_heap[rg_reg[NameB]].fields[3].schema].elem = rg_reg[NameA]
    /\ Len(rg_heap[rg_reg[NameA]].fields) = 2

\* C13: after Register calls that all completed, register and finialize,
\* the registry holds a schema under the name of every call: SchemaByName
\* succeeds for each of the names.
C13_EveryNameStored ==
    rg_pc = "done" => \A d \in rg_decls : d.name \in DOMAIN rg_reg

\* the schema object s is the schema of a field of a struct
IsFieldSchema(s) ==
    \E t \in 1..Len(rg_heap) :
        /\ ~IsReference(rg_heap[t])
        /\ rg_heap[t].kind = reflect.Struct
        /\ \E i \in 1..Len(rg_heap[t].fields) : rg_heap[t].fields[i].schema = s

\* C14: in the schemas that getSchema makes a reference schema (Single,
\* Slice or Dynamic) is the schema of a struct field only, and the element
\* of an array or slice schema is never a reference schema.
C14_ReferencesInFieldsOnly ==
    rg_pc \in {"fill", "done"} =>
        \A s \in 1..Len(rg_heap) :
            /\ IsReference(rg_heap[s]) => IsFieldSchema(s)
            /\ (~IsReference(rg_heap[s])
                    /\ rg_heap[s].kind \in {reflect.Array, reflect.Slice}
                    /\ rg_heap[s].elem # 0)
                  => ~IsReference(rg_heap[rg_heap[s].elem])

-----------------------------------------------------------------------------
(* DecodeRegistry                                                          *)

\* the entries of the input of DecodeRegistry
entriesOf(b) == DeserializeRaw(registryEntities, b)

\* the entries of es whose schema bytes decodeSchema fails on
failing(es) == {i \in 1..Len(es) : decodeSchema(es[i][2]).err # ""}

\* the first of them
firstFailing(es) == CHOOSE i \in failing(es) : \A j \in failing(es) : i <= j

\* the input deserializes to entries, and the schema bytes of one of them
\* do not decode
EntryFails(d) == d.err = "" /\ failing(d.v) # {}

\* DecodeRegistry returned the failure of the first failing entry of es, and
\* neither that entry nor a later one is stored
FirstFailure(es, i) ==
    /\ rg_pc = "failed"
    /\ dr_err = decodeSchema(es[i][2]).err
    /\ \A j \in i..Len(es) : es[j][1] \notin DOMAIN rg_reg

\* C11: when the entry list deserializes but the schema bytes of an entry do
\* not decode, DecodeRegistry stops at the first such entry and returns its
\* failure as the error, without a panic, without storing that entry and
\* without going on to later entries or to finialize.
C11_FirstFailureReturned ==
    (dr_in.decoded /\ EntryFails(entriesOf(dr_in.b))) =>
        FirstFailure(entriesOf(dr_in.b).v, firstFailing(entriesOf(dr_in.b).v))

\* DecodeRegistry was given the Encode() of the Registry it was made of
OwnBytes == dr_in.decoded /\ dr_in.b = dr_in.enc

\* C15: for a locally built and finialized Registry R, DecodeRegistry of
\* R.Encode() succeeds and gives a Registry with the names of R, with an
\* Encode() equal to R.Encode() and a Reference() equal to R.Reference(), and
\* in both the Reference() is the digest of the Encode().
C15_WireRoundTrip ==
    /\ OwnBytes => (rg_pc \in {"fill", "done"} /\ dr_err = "")
    /\ (OwnBytes /\ rg_pc = "done") =>
        /\ DOMAIN rg_reg = dr_in.names
        /\ rg_enc = dr_in.enc
        /\ rg_ref = dr_in.ref
        /\ rg_ref = SumSHA256(rg_enc)
        /\ dr_in.ref = SumSHA256(dr_in.enc)

\* a Registry of two structs, one with a reference to the other, decoded
\* from its own bytes and finialized
C15_Witness ==
    /\ OwnBytes
    /\ rg_pc = "done"
    /\ Cardinality(DOMAIN rg_reg) = 2
    /\ \E s \in 1..Len(rg_heap) : IsReference(rg_heap[s])

----------------------------------------------------------------------------
(* Specifications: each drives one component and leaves the others idle *)

InitSize == SizeInit /\ MsgIdle /\ CodecIdle /\ RegIdle /\ DrIdle
SpecSize == InitSize /\ [][SizeNext]_vars

InitMsg == MsgInit /\ SizeIdle /\ CodecIdle /\ RegIdle /\ DrIdle
SpecMsg == InitMsg /\ [][MsgNext]_vars

InitCodec == CodecInit /\ SizeIdle /\ MsgIdle /\ RegIdle /\ DrIdle
SpecCodec == InitCodec /\ [][CodecNext]_vars

InitReg == RegInit /\ SizeIdle /\ MsgIdle /\ CodecIdle /\ DrIdle
SpecReg == InitReg /\ [][RegNext]_vars

\* the first loop of finialize is not left half way: fillSchema takes its
\* next step
SpecRegLive == SpecReg /\ WF_vars(FillNext)

====
